---------------------------- MODULE Spec2Model ----------------------------
(***************************************************************************)
(* Model of speedreader (src/main.rs): the countdown stage, the pacing     *)
(* loop of speed_read, the pause sub-loop handle_paused_input, the         *)
(* tokenizer and the hold-duration computation.                            *)
(*                                                                         *)
(* Time is counted in milliseconds.  The program only lets time pass in    *)
(* thread::sleep and in event::poll; everything else takes no time.        *)
(* The input source is a FIFO queue of events filled by the user.          *)
(***************************************************************************)
EXTENDS Integers, Sequences, FiniteSets, TLC

(***************************************************************************)
(* Program constants                                                       *)
(***************************************************************************)
MAX_WPM == 1000
MIN_WPM == 150
MINUTE_MS == 60000
MAIN_POLL_MS == 50
PAUSE_POLL_MS == 100
COUNTDOWN_SECONDS == 3
SLEEP_MS == 1000
CLEAR_WIDTH == 4

(***************************************************************************)
(* Bounds of the model                                                     *)
(***************************************************************************)
\* u64 arithmetic wraps modulo this value (the word is scaled down to keep
\* the numbers inside the model checker's integers; the wrap is kept).
WordModulus == 65536
\* time passes in slices of at most Quantum ms inside a poll
Quantum == 50
\* a pause is observed for at most this many ms of a token's elapsed time
MaxElapsed == 250
\* events waiting in the input source when the countdown ends
MaxQueue == 2
\* events that arrive before a poll in progress returns
MaxBurst == 1
\* rate commands handled in one session
MaxRateCmds == 2
\* extra ms a one-second sleep may take
MaxOversleep == 100
\* length of the texts given to the tokenizer
MaxTextLen == 4

Min(a, b) == IF a < b THEN a ELSE b
Max(a, b) == IF a > b THEN a ELSE b

(***************************************************************************)
(* Characters and events                                                   *)
(***************************************************************************)
Alnum == {"a", "7"}
White == {" "}
Punct == {"-"}
Chars == Alnum \cup White \cup Punct

IsAlphanumeric(c) == c \in Alnum
IsWhitespace(c) == c \in White

KeyChars == {"q", " ", "+", "-"}
\* an event of the input source: a character key, or a non-key event
Events == KeyChars \cup {"Resize"}

DefaultKeys == [quit |-> "q", pause |-> " ", increase_wpm |-> "+", decrease_wpm |-> "-"]
\* key-binding sets a configuration file can hold (distinctness is not checked on load)
PauseIsQuit == [quit |-> "q", pause |-> "q", increase_wpm |-> "+", decrease_wpm |-> "-"]
QuitIsIncrease == [quit |-> "+", pause |-> " ", increase_wpm |-> "+", decrease_wpm |-> "-"]

(***************************************************************************)
(* tokenize_text: split_whitespace, then keep the alphanumeric characters  *)
(***************************************************************************)
RECURSIVE SplitWhitespace(_, _, _)
\* scans text left to right; cur is the chunk being collected; acc the chunks found
SplitWhitespace(text, cur, acc) ==
  IF text = <<>>
    THEN IF cur = <<>> THEN acc ELSE Append(acc, cur)
    ELSE IF IsWhitespace(Head(text))
      THEN SplitWhitespace(Tail(text), <<>>, IF cur = <<>> THEN acc ELSE Append(acc, cur))
      ELSE SplitWhitespace(Tail(text), Append(cur, Head(text)), acc)

FilterAlnum(word) == SelectSeq(word, IsAlphanumeric)

\* tokenize_text that drops the tokens left empty by the filter
tokenize_text_DropEmpty(text) ==
  LET chunks == SplitWhitespace(text, <<>>, <<>>)
  IN  SelectSeq([k \in 1..Len(chunks) |-> FilterAlnum(chunks[k])], LAMBDA w : w # <<>>)

tokenize_text(text) ==
  LET chunks == SplitWhitespace(text, <<>>, <<>>)
  IN  [k \in 1..Len(chunks) |-> FilterAlnum(chunks[k])]

(***************************************************************************)
(* Arithmetic of the rate                                                  *)
(***************************************************************************)
\* Config::from_args: only a rate given on the command line is clamped
from_args(loaded_wpm, arg_wpm) ==
  IF arg_wpm # -1 THEN Min(MAX_WPM, Max(arg_wpm, MIN_WPM)) ELSE loaded_wpm

\* a hold computed as minutes per word instead of ms per word
HoldMs_Inverted(wpm) == wpm \div 60

\* dur_wpm of speed_read, in ms
HoldMs(wpm) == MINUTE_MS \div wpm

AddOverflows(a, b) == a + b >= WordModulus
SubOverflows(a, b) == a < b
WrappingAdd(a, b) == (a + b) % WordModulus
WrappingSub(a, b) == (a - b + WordModulus) % WordModulus

IncreaseWpm(wpm, step) == Min(WrappingAdd(wpm, step), MAX_WPM)
DecreaseWpm(wpm, step) == Max(WrappingSub(wpm, step), MIN_WPM)

(***************************************************************************)
(* Text on the screen                                                      *)
(***************************************************************************)
RECURSIVE Digits(_)
\* format!("{n}") as a sequence of digits
Digits(n) == IF n < 10 THEN <<n>> ELSE Append(Digits(n \div 10), n % 10)

\* writing new over old at the same column: characters past the new text stay
Overwrite(old, new) ==
  [k \in 1..Max(Len(old), Len(new)) |-> IF k <= Len(new) THEN new[k] ELSE old[k]]

\* the blanks written before a decreased rate cover "WPM: " and CLEAR_WIDTH digits
ClearIndicator(old) ==
  [k \in 1..Len(old) |-> IF k <= CLEAR_WIDTH THEN -1 ELSE old[k]]

\* trailing blanks are not visible
RECURSIVE Trim(_)
Trim(s) == IF s # <<>> /\ s[Len(s)] = -1 THEN Trim(SubSeq(s, 1, Len(s) - 1)) ELSE s

Blank == [kind |-> "blank", val |-> 0]
BlankScreen ==
  [wpm |-> <<>>, pos |-> 0, center |-> Blank, label |-> FALSE, pause |-> FALSE, legend |-> FALSE]


(***************************************************************************)
(* State                                                                   *)
(***************************************************************************)
VARIABLES
  pc,              \* position of the program
  config,          \* Config: wpm, wpm_step, keys
  overflow_checks, \* whether the build panics on integer overflow
  buf,             \* the source text given to speed_read
  words,           \* the token sequence
  i,               \* index of the token on display
  current_wpm,     \* the rate
  paused,          \* the paused flag of speed_read
  dur_wpm,         \* hold duration of the token on display, ms
  elapsed,         \* start.elapsed() of the token on display, ms
  waited,          \* ms spent in the poll in progress
  pausedMs,        \* part of elapsed spent in the pause sub-loop
  queue,           \* events waiting in the input source
  screen,          \* what the terminal shows
  cursorRow,       \* row the cursor is on
  frames,          \* position indicators of the word frames rendered so far
  cdFrames,        \* remaining values rendered by the countdown so far
  result,          \* <<>> until speed_read returns Ok(result)
  cdClock,         \* ms since the countdown started
  cdElapsed,       \* the elapsed value read at the top of the countdown loop
  rateKeys,        \* a rate command was handled in the pause in progress
  rateCmds,        \* rate keys pressed so far
  issued,          \* an event was issued since the session began
  probe,           \* inputs and outputs of the pure functions under check
  inputFailed,     \* a call to the input source has failed
  term,            \* modes of the terminal: alternate screen, hidden cursor, raw mode
  summaryAsked,    \* main has asked for the summary
  evalCalls        \* calls of process_summary made so far

mainVars == <<term, summaryAsked, evalCalls>>
\* what the session only reads or leaves alone
inputs == <<config, overflow_checks, buf, probe, mainVars, inputFailed>>
cdVars == <<cdClock, cdElapsed, cdFrames>>
timeVars == <<elapsed, waited, pausedMs>>
scrVars == <<screen, cursorRow>>
envVars == <<queue, issued, rateCmds>>
vars == <<pc, config, overflow_checks, buf, words, i, current_wpm, paused, dur_wpm,
          elapsed, waited, pausedMs, queue, screen, cursorRow, frames, cdFrames,
          result, cdClock, cdElapsed, rateKeys, rateCmds, issued, probe, inputFailed,
          term, summaryAsked, evalCalls>>

\* what a session is started with: the rate the configuration file holds
\* (not clamped on load), the rate given with --wpm (-1: not given), the step,
\* the key bindings, and whether the build checks integer overflow
Launches ==
  { [loaded |-> 258, arg |-> -1, step |-> 5, keys |-> DefaultKeys, checks |-> TRUE],
    [loaded |-> 258, arg |-> 600, step |-> 300, keys |-> DefaultKeys, checks |-> FALSE],
    [loaded |-> 258, arg |-> 2000, step |-> WordModulus - 1, keys |-> DefaultKeys, checks |-> TRUE],
    [loaded |-> 258, arg |-> 2000, step |-> WordModulus - 1, keys |-> DefaultKeys, checks |-> FALSE],
    [loaded |-> 2000, arg |-> -1, step |-> 300, keys |-> DefaultKeys, checks |-> FALSE],
    [loaded |-> 0, arg |-> -1, step |-> 5, keys |-> DefaultKeys, checks |-> TRUE],
    [loaded |-> 258, arg |-> -1, step |-> 300, keys |-> PauseIsQuit, checks |-> TRUE],
    [loaded |-> 258, arg |-> -1, step |-> 300, keys |-> QuitIsIncrease, checks |-> FALSE] }

Texts == { <<" ">>, <<"a", " ", "-">> }

LaunchConfig(l) ==
  [wpm |-> from_args(l.loaded, l.arg), wpm_step |-> l.step, keys |-> l.keys]

\* the terminal as main hands it to speed_read, and as main found it
Acquired == [alt |-> TRUE, hidden |-> TRUE, raw |-> TRUE]
Released == [alt |-> FALSE, hidden |-> FALSE, raw |-> FALSE]

Cancelled == [success |-> FALSE, wpm |-> <<>>]
Completed(wpm) == [success |-> TRUE, wpm |-> <<wpm>>]

Init ==
  /\ pc = "countdown"
  /\ \E l \in Launches : config = LaunchConfig(l) /\ overflow_checks = l.checks
  /\ buf \in Texts
  /\ words = <<>>
  /\ i = 0
  /\ current_wpm = config.wpm
  /\ paused = FALSE
  /\ dur_wpm = 0
  /\ elapsed = 0
  /\ waited = 0
  /\ pausedMs = 0
  /\ queue = <<>>
  /\ screen = BlankScreen
  /\ cursorRow = "top"
  /\ frames = <<>>
  /\ cdFrames = <<>>
  /\ result = <<>>
  /\ cdClock = 0
  /\ cdElapsed = 0
  /\ rateKeys = FALSE
  /\ rateCmds = 0
  /\ issued = FALSE
  /\ probe = <<>>
  /\ inputFailed = FALSE
  /\ term = Acquired
  /\ summaryAsked = FALSE
  /\ evalCalls = <<>>

Active == {"countdown", "cdsleep", "check", "poll", "ppoll"}

(***************************************************************************)
(* The user                                                                *)
(***************************************************************************)
IsRateKey(e) == e \in {config.keys.increase_wpm, config.keys.decrease_wpm}

KeyPress(e) ==
  /\ pc \in Active
  /\ Len(queue) < (IF pc \in {"countdown", "cdsleep"} THEN MaxQueue ELSE MaxBurst)
  /\ IsRateKey(e) => rateCmds < MaxRateCmds
  /\ queue' = Append(queue, e)
  /\ issued' = TRUE
  /\ rateCmds' = IF IsRateKey(e) THEN rateCmds + 1 ELSE rateCmds
  /\ UNCHANGED <<pc, inputs, words, i, current_wpm, paused, dur_wpm, timeVars,
                 scrVars, frames, result, cdVars, rateKeys>>

(***************************************************************************)
(* display_word_ui and the head of the for loop of speed_read              *)
(***************************************************************************)
WordFrame(k, ws, wpm) ==
  [wpm |-> Digits(wpm), pos |-> k + 1, center |-> [kind |-> "word", val |-> ws[k + 1]],
   label |-> FALSE, pause |-> FALSE, legend |-> TRUE]

\* the for loop reaches index k of ws: the frame, the hold duration and the
\* start instant of token k, or the Completed result when ws is exhausted
EnterToken(k, ws) ==
  IF k >= Len(ws)
    THEN /\ pc' = "done"
         /\ result' = <<Completed(current_wpm)>>
         /\ i' = k
         /\ UNCHANGED <<scrVars, frames, dur_wpm, timeVars>>
    ELSE /\ i' = k
         /\ screen' = WordFrame(k, ws, current_wpm)
         /\ cursorRow' = "legend"
         /\ frames' = Append(frames, k + 1)
         /\ result' = result
         /\ IF current_wpm = 0
              THEN pc' = "panic" /\ UNCHANGED <<dur_wpm, timeVars>>
              ELSE /\ pc' = "check"
                   /\ dur_wpm' = HoldMs(current_wpm)
                   /\ elapsed' = 0
                   /\ waited' = 0
                   /\ pausedMs' = 0

(***************************************************************************)
(* display_countdown                                                       *)
(***************************************************************************)
Remaining(seconds, elapsedMs) == Max(0, seconds - elapsedMs \div 1000)

CountdownRender ==
  /\ pc = "countdown"
  /\ LET remaining == Remaining(COUNTDOWN_SECONDS, cdClock)
     IN  /\ screen' = [screen EXCEPT !.center = [kind |-> "count", val |-> remaining],
                                     !.label = IF remaining > 0 THEN TRUE ELSE @]
         /\ cursorRow' = IF remaining > 0 THEN "label" ELSE "center"
         /\ cdFrames' = Append(cdFrames, remaining)
  /\ cdElapsed' = cdClock
  /\ pc' = "cdsleep"
  /\ UNCHANGED <<inputs, words, i, current_wpm, paused, dur_wpm, timeVars, envVars,
                 frames, result, cdClock, rateKeys>>

\* start.elapsed() fails when the system clock was set back
CountdownTimeError ==
  /\ pc = "countdown"
  /\ pc' = "error"
  /\ UNCHANGED <<inputs, words, i, current_wpm, paused, dur_wpm, timeVars, envVars,
                 scrVars, frames, result, cdVars, rateKeys>>

CountdownSleep_Interruptible(over) ==
  /\ pc = "cdsleep"
  /\ IF queue # <<>> /\ Head(queue) = config.keys.quit
       THEN /\ pc' = "done"
            /\ result' = <<Cancelled>>
            /\ queue' = Tail(queue)
            /\ UNCHANGED <<cdClock, cdElapsed, paused, words, i, scrVars, frames,
                           dur_wpm, timeVars>>
       ELSE /\ queue' = queue
            /\ IF cdElapsed >= COUNTDOWN_SECONDS * 1000
                 THEN /\ cdClock' = 0
                      /\ cdElapsed' = 0
                      /\ paused' = FALSE
                      /\ words' = tokenize_text(buf)
                      /\ EnterToken(0, words')
                 ELSE /\ pc' = "countdown"
                      /\ cdClock' = cdClock + SLEEP_MS + over
                      /\ UNCHANGED <<cdElapsed, paused, words, i, scrVars, frames,
                                     result, dur_wpm, timeVars>>
  /\ UNCHANGED <<inputs, current_wpm, issued, rateCmds, cdFrames, rateKeys>>

CountdownSleep_Flush(over) ==
  /\ pc = "cdsleep"
  /\ IF cdElapsed >= COUNTDOWN_SECONDS * 1000
       THEN /\ cdClock' = 0
            /\ cdElapsed' = 0
            /\ paused' = FALSE
            /\ words' = tokenize_text(buf)
            /\ queue' = <<>>
            /\ EnterToken(0, words')
       ELSE /\ pc' = "countdown"
            /\ cdClock' = cdClock + SLEEP_MS + over
            /\ UNCHANGED <<cdElapsed, paused, words, i, scrVars, frames, result,
                           dur_wpm, timeVars, queue>>
  /\ UNCHANGED <<inputs, current_wpm, issued, rateCmds, cdFrames, rateKeys>>

\* the sleep ends; the loop breaks when the elapsed value read before the
\* frame had reached the countdown, and speed_read goes on to the tokens
CountdownSleep(over) ==
  /\ pc = "cdsleep"
  /\ IF cdElapsed >= COUNTDOWN_SECONDS * 1000
       THEN /\ cdClock' = 0
            /\ cdElapsed' = 0
            /\ paused' = FALSE
            /\ words' = tokenize_text(buf)
            /\ EnterToken(0, words')
       ELSE /\ pc' = "countdown"
            /\ cdClock' = cdClock + SLEEP_MS + over
            /\ UNCHANGED <<cdElapsed, paused, words, i, scrVars, frames, result,
                           dur_wpm, timeVars>>
  /\ UNCHANGED <<inputs, current_wpm, envVars, cdFrames, rateKeys>>

(***************************************************************************)
(* event::poll                                                             *)
(***************************************************************************)
PollTimeoutMs(p) == IF p = "poll" THEN MAIN_POLL_MS ELSE PAUSE_POLL_MS

Tick_ElapsedFrozen ==
  /\ pc \in {"poll", "ppoll"}
  /\ queue = <<>>
  /\ waited < PollTimeoutMs(pc)
  /\ pc = "ppoll" => elapsed < MaxElapsed
  /\ waited' = waited + Min(Quantum, PollTimeoutMs(pc) - waited)
  /\ UNCHANGED <<pc, inputs, words, i, current_wpm, paused, dur_wpm, elapsed, pausedMs,
                 envVars, scrVars, frames, result, cdVars, rateKeys>>

\* time passes while a poll waits on an empty input source
Tick ==
  /\ pc \in {"poll", "ppoll"}
  /\ queue = <<>>
  /\ waited < PollTimeoutMs(pc)
  /\ pc = "ppoll" => elapsed < MaxElapsed
  /\ LET d == Min(Quantum, PollTimeoutMs(pc) - waited)
     IN  /\ elapsed' = elapsed + d
         /\ waited' = waited + d
         /\ pausedMs' = IF pc = "ppoll" THEN pausedMs + d ELSE pausedMs
  /\ UNCHANGED <<pc, inputs, words, i, current_wpm, paused, dur_wpm, envVars, scrVars,
                 frames, result, cdVars, rateKeys>>

\* event::poll fails
PollFail ==
  /\ pc \in {"poll", "ppoll"}
  /\ pc' = "error"
  /\ inputFailed' = TRUE
  /\ UNCHANGED <<config, overflow_checks, buf, probe, mainVars, words, i, current_wpm,
                 paused, dur_wpm, timeVars, envVars, scrVars, frames, result, cdVars,
                 rateKeys>>

ReadFail_Retry ==
  /\ pc \in {"poll", "ppoll"}
  /\ queue # <<>>
  /\ pc' = IF pc = "poll" THEN "check" ELSE "ppoll"
  /\ waited' = 0
  /\ inputFailed' = TRUE
  /\ UNCHANGED <<config, overflow_checks, buf, probe, mainVars, words, i, current_wpm,
                 paused, dur_wpm, elapsed, pausedMs, envVars, scrVars, frames, result,
                 cdVars, rateKeys>>

\* event::read fails after the poll reported an event
ReadFail ==
  /\ pc \in {"poll", "ppoll"}
  /\ queue # <<>>
  /\ pc' = "error"
  /\ inputFailed' = TRUE
  /\ UNCHANGED <<config, overflow_checks, buf, probe, mainVars, words, i, current_wpm,
                 paused, dur_wpm, timeVars, envVars, scrVars, frames, result, cdVars,
                 rateKeys>>

\* a write to the terminal fails while the next frame is drawn
RenderFail ==
  /\ pc \in {"countdown", "check"}
  /\ pc' = "error"
  /\ UNCHANGED <<inputs, words, i, current_wpm, paused, dur_wpm, timeVars, envVars,
                 scrVars, frames, result, cdVars, rateKeys>>

(***************************************************************************)
(* speed_read: the while loop of a token                                   *)
(***************************************************************************)
\* the condition of the while loop; when it fails the for loop moves on
LoopCheck ==
  /\ pc = "check"
  /\ IF elapsed < dur_wpm
       THEN /\ pc' = "poll"
            /\ waited' = 0
            /\ UNCHANGED <<i, scrVars, frames, result, dur_wpm, elapsed, pausedMs>>
       ELSE EnterToken(i + 1, words)
  /\ UNCHANGED <<inputs, words, current_wpm, paused, envVars, cdVars, rateKeys>>

\* entry of handle_paused_input: the pause message, then the first poll
EnterPause ==
  /\ pc' = "ppoll"
  /\ waited' = 0
  /\ screen' = [screen EXCEPT !.pause = TRUE]
  /\ cursorRow' = "pause"
  /\ rateKeys' = FALSE

\* the poll returns false
PollTimeout ==
  /\ pc = "poll"
  /\ queue = <<>>
  /\ waited >= MAIN_POLL_MS
  /\ IF paused
       THEN EnterPause
       ELSE pc' = "check" /\ UNCHANGED <<waited, scrVars, rateKeys>>
  /\ UNCHANGED <<inputs, words, i, current_wpm, paused, dur_wpm, elapsed, pausedMs,
                 envVars, frames, result, cdVars>>

RunQuit ==
  /\ pc = "poll"
  /\ queue # <<>>
  /\ Head(queue) = config.keys.quit
  /\ queue' = Tail(queue)
  /\ pc' = "done"
  /\ result' = <<Cancelled>>
  /\ UNCHANGED <<inputs, words, i, current_wpm, paused, dur_wpm, timeVars, issued,
                 rateCmds, scrVars, frames, cdVars, rateKeys>>

RunPause_BeforeQuit ==
  /\ pc = "poll"
  /\ queue # <<>>
  /\ Head(queue) = config.keys.pause
  /\ queue' = Tail(queue)
  /\ paused' = ~paused
  /\ IF paused'
       THEN EnterPause
       ELSE pc' = "check" /\ UNCHANGED <<waited, scrVars, rateKeys>>
  /\ UNCHANGED <<inputs, words, i, current_wpm, dur_wpm, elapsed, pausedMs, issued,
                 rateCmds, frames, result, cdVars>>

RunPause ==
  /\ pc = "poll"
  /\ queue # <<>>
  /\ Head(queue) # config.keys.quit
  /\ Head(queue) = config.keys.pause
  /\ queue' = Tail(queue)
  /\ paused' = ~paused
  /\ IF paused'
       THEN EnterPause
       ELSE pc' = "check" /\ UNCHANGED <<waited, scrVars, rateKeys>>
  /\ UNCHANGED <<inputs, words, i, current_wpm, dur_wpm, elapsed, pausedMs, issued,
                 rateCmds, frames, result, cdVars>>

RunIgnore_AdjustsRate ==
  /\ pc = "poll"
  /\ queue # <<>>
  /\ Head(queue) \notin {config.keys.quit, config.keys.pause}
  /\ queue' = Tail(queue)
  /\ pc' = "check"
  /\ current_wpm' = IF Head(queue) = config.keys.increase_wpm
                      THEN Min(current_wpm + config.wpm_step, MAX_WPM)
                      ELSE current_wpm
  /\ UNCHANGED <<inputs, words, i, paused, dur_wpm, timeVars, issued,
                 rateCmds, scrVars, frames, result, cdVars, rateKeys>>

\* any other key and any non-key event: continue
RunIgnore ==
  /\ pc = "poll"
  /\ queue # <<>>
  /\ Head(queue) \notin {config.keys.quit, config.keys.pause}
  /\ queue' = Tail(queue)
  /\ pc' = "check"
  /\ UNCHANGED <<inputs, words, i, current_wpm, paused, dur_wpm, timeVars, issued,
                 rateCmds, scrVars, frames, result, cdVars, rateKeys>>

(***************************************************************************)
(* handle_paused_input                                                     *)
(***************************************************************************)
\* Clear(CurrentLine) clears the row the cursor is on
ClearCurrentLine(scr, row) ==
  CASE row = "top"    -> [scr EXCEPT !.wpm = <<>>, !.pos = 0]
    [] row = "label"  -> [scr EXCEPT !.label = FALSE]
    [] row = "center" -> [scr EXCEPT !.center = Blank]
    [] row = "pause"  -> [scr EXCEPT !.pause = FALSE]
    [] row = "legend" -> [scr EXCEPT !.legend = FALSE]

\* handle_paused_input reporting a successful result on resume
handle_paused_return_Restart(cmd, changed, wpm) ==
  IF cmd = "quit" THEN <<Cancelled>> ELSE <<[success |-> TRUE, wpm |-> <<wpm>>]>>

\* handle_paused_input leaving the loop on quit without a result
handle_paused_return_NoQuit(cmd, changed, wpm) == <<>>

\* the value handle_paused_input returns: <<>> is None
handle_paused_return(cmd, changed, wpm) ==
  IF cmd = "quit" THEN <<Cancelled>> ELSE <<>>

\* speed_read takes the value returned by handle_paused_input
AfterPausedInput(ret) ==
  IF ret # <<>>
    THEN IF ret[1].success /\ ret[1].wpm # <<>>
           THEN /\ pc' = "countdown"
                /\ current_wpm' = config.wpm
                /\ cdClock' = 0
                /\ cdElapsed' = 0
                /\ result' = result
           ELSE /\ pc' = "done"
                /\ result' = <<ret[1]>>
                /\ UNCHANGED <<current_wpm, cdClock, cdElapsed>>
    ELSE /\ pc' = "check"
         /\ UNCHANGED <<result, current_wpm, cdClock, cdElapsed>>

PausedTimeout ==
  /\ pc = "ppoll"
  /\ queue = <<>>
  /\ waited >= PAUSE_POLL_MS
  /\ waited' = 0
  /\ UNCHANGED <<pc, inputs, words, i, current_wpm, paused, dur_wpm, elapsed, pausedMs,
                 envVars, scrVars, frames, result, cdVars, rateKeys>>

PausedIncrease_RecomputesHold ==
  /\ pc = "ppoll"
  /\ queue # <<>>
  /\ Head(queue) = config.keys.increase_wpm
  /\ queue' = Tail(queue)
  /\ IF overflow_checks /\ AddOverflows(current_wpm, config.wpm_step)
       THEN pc' = "panic" /\ UNCHANGED <<current_wpm, waited, scrVars, rateKeys, dur_wpm>>
       ELSE /\ current_wpm' = IncreaseWpm(current_wpm, config.wpm_step)
            /\ dur_wpm' = HoldMs(current_wpm')
            /\ screen' = [screen EXCEPT !.wpm = Overwrite(@, Digits(current_wpm'))]
            /\ cursorRow' = "top"
            /\ rateKeys' = TRUE
            /\ waited' = 0
            /\ pc' = "ppoll"
  /\ UNCHANGED <<inputs, words, i, paused, elapsed, pausedMs, issued, rateCmds,
                 frames, result, cdVars>>

PausedIncrease ==
  /\ pc = "ppoll"
  /\ queue # <<>>
  /\ Head(queue) = config.keys.increase_wpm
  /\ queue' = Tail(queue)
  /\ IF overflow_checks /\ AddOverflows(current_wpm, config.wpm_step)
       THEN pc' = "panic" /\ UNCHANGED <<current_wpm, waited, scrVars, rateKeys>>
       ELSE /\ current_wpm' = IncreaseWpm(current_wpm, config.wpm_step)
            /\ screen' = [screen EXCEPT !.wpm = Overwrite(@, Digits(current_wpm'))]
            /\ cursorRow' = "top"
            /\ rateKeys' = TRUE
            /\ waited' = 0
            /\ pc' = "ppoll"
  /\ UNCHANGED <<inputs, words, i, paused, dur_wpm, elapsed, pausedMs, issued, rateCmds,
                 frames, result, cdVars>>

PausedDecrease ==
  /\ pc = "ppoll"
  /\ queue # <<>>
  /\ Head(queue) # config.keys.increase_wpm
  /\ Head(queue) = config.keys.decrease_wpm
  /\ queue' = Tail(queue)
  /\ IF overflow_checks /\ SubOverflows(current_wpm, config.wpm_step)
       THEN pc' = "panic" /\ UNCHANGED <<current_wpm, waited, scrVars, rateKeys>>
       ELSE /\ current_wpm' = DecreaseWpm(current_wpm, config.wpm_step)
            /\ screen' = [screen EXCEPT
                            !.wpm = Trim(Overwrite(ClearIndicator(@), Digits(current_wpm')))]
            /\ cursorRow' = "top"
            /\ rateKeys' = TRUE
            /\ waited' = 0
            /\ pc' = "ppoll"
  /\ UNCHANGED <<inputs, words, i, paused, dur_wpm, elapsed, pausedMs, issued, rateCmds,
                 frames, result, cdVars>>

PausedQuit ==
  /\ pc = "ppoll"
  /\ queue # <<>>
  /\ Head(queue) \notin {config.keys.increase_wpm, config.keys.decrease_wpm}
  /\ Head(queue) = config.keys.quit
  /\ queue' = Tail(queue)
  /\ AfterPausedInput(handle_paused_return("quit", rateKeys, current_wpm))
  /\ UNCHANGED <<inputs, words, i, paused, dur_wpm, timeVars, issued, rateCmds, scrVars,
                 frames, cdFrames, rateKeys>>

PausedResume ==
  /\ pc = "ppoll"
  /\ queue # <<>>
  /\ Head(queue) \notin {config.keys.increase_wpm, config.keys.decrease_wpm,
                         config.keys.quit}
  /\ Head(queue) = config.keys.pause
  /\ queue' = Tail(queue)
  /\ paused' = FALSE
  /\ screen' = ClearCurrentLine(screen, cursorRow)
  /\ AfterPausedInput(handle_paused_return("resume", rateKeys, current_wpm))
  /\ UNCHANGED <<inputs, words, i, dur_wpm, timeVars, issued, rateCmds, cursorRow,
                 frames, cdFrames, rateKeys>>

\* any other key and any non-key event: continue
PausedIgnore ==
  /\ pc = "ppoll"
  /\ queue # <<>>
  /\ Head(queue) \notin {config.keys.increase_wpm, config.keys.decrease_wpm,
                         config.keys.quit, config.keys.pause}
  /\ queue' = Tail(queue)
  /\ waited' = 0
  /\ UNCHANGED <<pc, inputs, words, i, current_wpm, paused, dur_wpm, elapsed, pausedMs,
                 issued, rateCmds, scrVars, frames, result, cdVars, rateKeys>>

(***************************************************************************)
(* The session                                                             *)
(***************************************************************************)
Oversleeps == {0, MaxOversleep}

Next ==
  \/ \E e \in Events : KeyPress(e)
  \/ CountdownRender
  \/ CountdownTimeError
  \/ \E over \in Oversleeps : CountdownSleep(over)
  \/ Tick
  \/ PollFail
  \/ ReadFail
  \/ RenderFail
  \/ LoopCheck
  \/ PollTimeout
  \/ RunQuit
  \/ RunPause
  \/ RunIgnore
  \/ PausedTimeout
  \/ PausedIncrease
  \/ PausedDecrease
  \/ PausedQuit
  \/ PausedResume
  \/ PausedIgnore

Spec == Init /\ [][Next]_vars

(***************************************************************************)
(* main: the terminal around the session, and what follows the session     *)
(***************************************************************************)
\* all that main leaves alone once the configuration and the text are read
sessionVars ==
  <<config, overflow_checks, buf, probe, words, i, current_wpm, paused, dur_wpm,
    timeVars, envVars, scrVars, frames, result, cdVars, rateKeys, inputFailed>>

\* text_buf.trim().is_empty()
TextIsBlank(b) == \A k \in 1..Len(b) : IsWhitespace(b[k])

InitMain ==
  /\ pc = "m_text"
  /\ \E l \in Launches : config = LaunchConfig(l) /\ overflow_checks = l.checks
  /\ buf \in Texts
  /\ words = <<>>
  /\ i = 0
  /\ current_wpm = config.wpm
  /\ paused = FALSE
  /\ dur_wpm = 0
  /\ elapsed = 0
  /\ waited = 0
  /\ pausedMs = 0
  /\ queue = <<>>
  /\ screen = BlankScreen
  /\ cursorRow = "top"
  /\ frames = <<>>
  /\ cdFrames = <<>>
  /\ result = <<>>
  /\ cdClock = 0
  /\ cdElapsed = 0
  /\ rateKeys = FALSE
  /\ rateCmds = 0
  /\ issued = FALSE
  /\ probe = <<>>
  /\ inputFailed = FALSE
  /\ term = Released
  /\ summaryAsked = FALSE
  /\ evalCalls = <<>>

\* a text without a visible character is refused before the terminal is touched
MainText ==
  /\ pc = "m_text"
  /\ pc' = IF TextIsBlank(buf) THEN "exit_err" ELSE "m_size"
  /\ UNCHANGED <<sessionVars, mainVars>>

AcquirePcs == <<"m_size", "m_alt", "m_clear", "m_hide", "m_raw">>

\* terminal::size, EnterAlternateScreen, Clear(All), cursor::Hide and
\* enable_raw_mode, one after the other; then speed_read is called
MainAcquire ==
  /\ \E k \in 1..Len(AcquirePcs) :
       /\ pc = AcquirePcs[k]
       /\ pc' = IF k < Len(AcquirePcs) THEN AcquirePcs[k + 1] ELSE "countdown"
  /\ term' = CASE pc = "m_alt" -> [term EXCEPT !.alt = TRUE]
               [] pc = "m_hide" -> [term EXCEPT !.hidden = TRUE]
               [] pc = "m_raw" -> [term EXCEPT !.raw = TRUE]
               [] OTHER -> term
  /\ UNCHANGED <<sessionVars, summaryAsked, evalCalls>>

\* one of the five calls fails: the `?` returns from main
MainAcquireFail ==
  /\ \E k \in 1..Len(AcquirePcs) : pc = AcquirePcs[k]
  /\ pc' = "exit_err"
  /\ UNCHANGED <<sessionVars, mainVars>>

\* the terminal after the first n calls of the reset closure: disable_raw_mode,
\* LeaveAlternateScreen, Clear(All), MoveTo(0, 0), cursor::Show
ResetCalls == <<"raw", "alt", "clear", "move", "show">>
ResetUpTo(t, n) ==
  [raw |-> IF n >= 1 THEN FALSE ELSE t.raw,
   alt |-> IF n >= 2 THEN FALSE ELSE t.alt,
   hidden |-> IF n >= Len(ResetCalls) THEN FALSE ELSE t.hidden]

\* speed_read has returned: run_result holds its result or its error, its
\* locals and the record of the session are gone, the unread events stay
\* where they are; then the first n calls of the reset closure are made
ResetAfterSession(n) ==
  /\ pc \in {"done", "error"}
  /\ term' = ResetUpTo(term, n)
  /\ screen' = IF n >= 2 THEN BlankScreen ELSE screen
  /\ cursorRow' = IF n >= 2 THEN "top" ELSE cursorRow
  /\ words' = <<>>
  /\ i' = 0
  /\ current_wpm' = config.wpm
  /\ paused' = FALSE
  /\ dur_wpm' = 0
  /\ elapsed' = 0
  /\ waited' = 0
  /\ pausedMs' = 0
  /\ frames' = <<>>
  /\ cdFrames' = <<>>
  /\ rateKeys' = FALSE
  /\ rateCmds' = 0
  /\ issued' = FALSE
  /\ inputFailed' = FALSE
  /\ UNCHANGED <<config, overflow_checks, buf, probe, queue, result, cdClock, cdElapsed,
                 summaryAsked, evalCalls>>

\* the reset closure runs through
MainReset ==
  /\ ResetAfterSession(Len(ResetCalls))
  /\ pc' = "m_match"

\* call k of the reset closure fails: the rest of it is skipped, the failure
\* is printed and main returns it
MainResetFail(k) ==
  /\ ResetAfterSession(k - 1)
  /\ pc' = "exit_err"

WantsSummary_AnyResult(run) == TRUE

\* result.success and `if let Some(wpm) = result.wpm`
WantsSummary(run) == run[1].success /\ run[1].wpm # <<>>

\* match run_result: the summary is asked for, or main returns
MainMatch ==
  /\ pc = "m_match"
  /\ IF result = <<>>
       THEN pc' = "exit_err" /\ UNCHANGED summaryAsked
       ELSE IF WantsSummary(result)
              THEN pc' = "m_summary" /\ summaryAsked' = TRUE
              ELSE pc' = "exit_ok" /\ UNCHANGED summaryAsked
  /\ UNCHANGED <<sessionVars, term, evalCalls>>

\* the lines typed before the first empty line
Summaries == { <<>>, <<"s">> }

\* the summary is read; process_summary is called unless it is empty, and
\* its outcome is the outcome of main
MainSummary(s, ok) ==
  /\ pc = "m_summary"
  /\ IF s = <<>>
       THEN pc' = "exit_ok" /\ UNCHANGED evalCalls
       ELSE /\ evalCalls' =
                 Append(evalCalls, [summary |-> s, text |-> buf, wpm |-> result[1].wpm[1]])
            /\ pc' = IF ok THEN "exit_ok" ELSE "exit_err"
  /\ UNCHANGED <<sessionVars, term, summaryAsked>>

\* term.read_line fails
MainSummaryFail ==
  /\ pc = "m_summary"
  /\ pc' = "exit_err"
  /\ UNCHANGED <<sessionVars, mainVars>>

NextMain ==
  \/ MainText
  \/ MainAcquire
  \/ MainAcquireFail
  \/ Next
  \/ MainReset
  \/ \E k \in 1..Len(ResetCalls) : MainResetFail(k)
  \/ MainMatch
  \/ \E s \in Summaries, ok \in BOOLEAN : MainSummary(s, ok)
  \/ MainSummaryFail

SpecMain == InitMain /\ [][NextMain]_vars

(***************************************************************************)
(* The session when the program keeps running                              *)
(***************************************************************************)
\* the steps the program takes by itself: none of them waits for anything
\* but the timeout of its poll or an event
ProgramStep ==
  \/ CountdownRender
  \/ \E over \in Oversleeps : CountdownSleep(over)
  \/ LoopCheck
  \/ PollTimeout
  \/ RunQuit
  \/ RunPause
  \/ RunIgnore
  \/ PausedTimeout
  \/ PausedIncrease
  \/ PausedDecrease
  \/ PausedQuit
  \/ PausedResume
  \/ PausedIgnore

\* a session whose starting rate is inside [MIN_WPM, MAX_WPM]
InitLive == Init /\ config.wpm \in MIN_WPM..MAX_WPM

SpecLive == InitLive /\ [][Next]_vars /\ WF_vars(ProgramStep)

(***************************************************************************)
(* The dispatch of one event, under every set of key bindings              *)
(***************************************************************************)
\* the key bindings a configuration file can hold
Bindings ==
  [quit : KeyChars, pause : KeyChars, increase_wpm : KeyChars, decrease_wpm : KeyChars]

\* token 0 of a default-rate session is on display and one event waits at the
\* poll of the Running state or, after the pause key was read, at the poll of
\* the pause sub-loop; the pause sub-loop is entered only by a pause key that
\* is not the quit key
InitKeys ==
  /\ config \in [wpm : {258}, wpm_step : {5}, keys : Bindings]
  /\ overflow_checks = TRUE
  /\ buf = <<"a", " ", "-">>
  /\ words = tokenize_text(buf)
  /\ i = 0
  /\ current_wpm = config.wpm
  /\ dur_wpm = HoldMs(current_wpm)
  /\ pc \in {"poll", "ppoll"}
  /\ pc = "ppoll" => config.keys.pause # config.keys.quit
  /\ paused = (pc = "ppoll")
  /\ screen = [WordFrame(0, words, current_wpm) EXCEPT !.pause = paused]
  /\ cursorRow = IF paused THEN "pause" ELSE "legend"
  /\ \E e \in Events :
       /\ queue = <<e>>
       /\ rateCmds = (IF IsRateKey(e) THEN 1 ELSE 0)
                       + (IF paused /\ IsRateKey(config.keys.pause) THEN 1 ELSE 0)
  /\ issued = TRUE
  /\ elapsed = 0
  /\ waited = 0
  /\ pausedMs = 0
  /\ frames = <<1>>
  /\ cdFrames = <<3, 2, 1, 0>>
  /\ cdClock = 0
  /\ cdElapsed = 0
  /\ rateKeys = FALSE
  /\ result = <<>>
  /\ probe = <<>>
  /\ inputFailed = FALSE
  /\ term = Acquired
  /\ summaryAsked = FALSE
  /\ evalCalls = <<>>

NextKeys ==
  \/ RunQuit
  \/ RunPause
  \/ RunIgnore
  \/ PausedIncrease
  \/ PausedDecrease
  \/ PausedQuit
  \/ PausedResume
  \/ PausedIgnore

SpecKeys == InitKeys /\ [][NextKeys]_vars

(***************************************************************************)
(* The pure functions on their own                                         *)
(***************************************************************************)
RECURSIVE TextsUpTo(_)
TextsUpTo(n) ==
  IF n = 0 THEN {<<>>}
  ELSE LET shorter == TextsUpTo(n - 1)
       IN  shorter \cup {Append(t, c) : t \in {u \in shorter : Len(u) = n - 1}, c \in Chars}

Idle ==
  /\ config = LaunchConfig(CHOOSE l \in Launches : l.step = 5 /\ l.loaded = 258)
  /\ overflow_checks = FALSE
  /\ i = 0
  /\ current_wpm = config.wpm
  /\ paused = FALSE
  /\ dur_wpm = 0
  /\ elapsed = 0
  /\ waited = 0
  /\ pausedMs = 0
  /\ queue = <<>>
  /\ screen = BlankScreen
  /\ cursorRow = "top"
  /\ frames = <<>>
  /\ cdFrames = <<>>
  /\ result = <<>>
  /\ cdClock = 0
  /\ cdElapsed = 0
  /\ rateKeys = FALSE
  /\ rateCmds = 0
  /\ issued = FALSE
  /\ inputFailed = FALSE
  /\ term = Released
  /\ summaryAsked = FALSE
  /\ evalCalls = <<>>

InitTok ==
  /\ pc = "tok_in"
  /\ buf \in TextsUpTo(MaxTextLen)
  /\ words = <<>>
  /\ probe = <<>>
  /\ Idle

Tokenize ==
  /\ pc = "tok_in"
  /\ words' = tokenize_text(buf)
  /\ pc' = "tok_out"
  /\ UNCHANGED <<inputs, i, current_wpm, paused, dur_wpm, timeVars, envVars, scrVars,
                 frames, result, cdVars, rateKeys>>

NextTok == Tokenize

SpecTok == InitTok /\ [][NextTok]_vars

InitHold ==
  /\ pc = "hold_in"
  /\ \E a \in MIN_WPM..MAX_WPM, b \in MIN_WPM..MAX_WPM :
        a < b /\ probe = [r1 |-> a, r2 |-> b, d1 |-> 0, d2 |-> 0]
  /\ buf = <<>>
  /\ words = <<>>
  /\ Idle

ComputeHolds ==
  /\ pc = "hold_in"
  /\ probe' = [probe EXCEPT !.d1 = HoldMs(probe.r1), !.d2 = HoldMs(probe.r2)]
  /\ pc' = "hold_out"
  /\ UNCHANGED <<config, overflow_checks, buf, words, i, current_wpm, paused, dur_wpm,
                 timeVars, envVars, scrVars, frames, result, cdVars, rateKeys,
                 mainVars, inputFailed>>

NextHold == ComputeHolds

SpecHold == InitHold /\ [][NextHold]_vars

(***************************************************************************)
(* Properties                                                              *)
(***************************************************************************)
\* the step in which the pause sub-loop handles the resume key
ResumeStep == pc = "ppoll" /\ paused /\ ~paused'
\* the step in which a loop reads the quit key from the input source
QuitRead(p) ==
  pc = p /\ queue # <<>> /\ Head(queue) = config.keys.quit /\ queue' = Tail(queue)
\* the step in which the for loop leaves the token on display
AdvanceStep == pc = "check" /\ i' = i + 1
CountTo(n) == [k \in 1..n |-> k]

\* C1: when a pause in which a rate command was handled is resumed, playback
\* restarts from token 0: speed_read starts over, or the frame of token 0 is
\* the next one rendered.
C1_RestartAfterRateChange ==
  [][(ResumeStep /\ rateKeys) =>
       (pc' = "countdown" \/ (i' = 0 /\ frames' = Append(frames, 1)))]_vars

\* C2: a resume from a pause in which no rate command was handled leaves the
\* token position and the frames as they are and goes back to the hold of the
\* same token; frames are only ever rendered for the position after the last
\* one, so no earlier token is shown again and token i + 1 follows token i.
C2_ResumeKeepsPosition ==
  [][/\ (ResumeStep /\ ~rateKeys) => (i' = i /\ frames' = frames /\ pc' = "check")
     /\ frames' # frames => (frames' = Append(frames, Len(frames) + 1) /\ i' = Len(frames))
     /\ i' # i => i' = i + 1]_vars

C2_Witness ==
  /\ pc = "check"
  /\ i = 1
  /\ frames = <<1, 2>>
  /\ pausedMs > 0
  /\ ~rateKeys
  /\ rateCmds = 0

\* C3 as stated: whenever the quit key is read in the Running or the Paused
\* state, the session ends Cancelled with no rate and the token position and
\* the frames stay as they are.
C3_QuitAlwaysCancels ==
  [][(QuitRead("poll") \/ QuitRead("ppoll")) =>
       (/\ pc' = "done"
        /\ result' = <<[success |-> FALSE, wpm |-> <<>>]>>
        /\ i' = i
        /\ frames' = frames)]_vars

\* C3 amended: the same, in the Paused state only when the quit key is bound
\* to neither rate command; and nothing happens after the session has ended.
C3_QuitCancels ==
  [][/\ (\/ QuitRead("poll")
         \/ /\ QuitRead("ppoll")
            /\ config.keys.quit \notin {config.keys.increase_wpm, config.keys.decrease_wpm})
        => (/\ pc' = "done"
            /\ result' = <<[success |-> FALSE, wpm |-> <<>>]>>
            /\ i' = i
            /\ frames' = frames)
     /\ pc # "done"]_vars

C3_Witness ==
  /\ pc = "done"
  /\ result = <<[success |-> FALSE, wpm |-> <<>>]>>
  /\ paused
  /\ rateKeys
  /\ i = 1

\* C4: the rate lies within [MIN_WPM, MAX_WPM] in every state of a session.
C4_RateInRange == current_wpm \in MIN_WPM..MAX_WPM

\* C5: a session that ends otherwise than by the reading of a quit key or by
\* a failure of the input source or of the terminal ends when the last hold
\* has elapsed (or the text has no token), has rendered exactly the frames
\* 1..N, N the number of tokens of the text, and returns a Completed result
\* carrying the rate in effect at that step; the frames rendered so far are
\* always the first positions in order.
C5_CompletedRun ==
  [][/\ (/\ pc \in Active
         /\ pc' \in {"done", "panic"}
         /\ ~QuitRead("poll")
         /\ ~QuitRead("ppoll")) =>
          (/\ pc' = "done"
           /\ result' = <<[success |-> TRUE, wpm |-> <<current_wpm>>]>>
           /\ current_wpm' = current_wpm
           /\ frames' = CountTo(Len(tokenize_text(buf)))
           /\ (pc = "check" /\ elapsed >= dur_wpm) \/ frames' = <<>>)
     /\ frames' = CountTo(Len(frames'))]_vars

\* C6 as stated: the hold at the lower rate is strictly greater.
C6_StrictlyGreater == pc = "hold_out" => probe.d1 > probe.d2

\* C6 amended: the hold at the lower rate is never smaller than the hold at
\* the higher rate.
C6_NotSmaller == pc = "hold_out" => probe.d1 >= probe.d2

C6_Witness ==
  /\ pc = "hold_out"
  /\ probe.r1 = 999
  /\ probe.r2 = 1000
  /\ probe.d1 = probe.d2

\* the session was started with a rate within the range
StartInRange == config.wpm \in MIN_WPM..MAX_WPM

\* C7: when the starting rate is in range and no rate command was given, a
\* token is left only after it has been on display, outside the pause
\* sub-loop, for its whole hold duration.
C7_PauseNotCounted ==
  [][(AdvanceStep /\ StartInRange /\ rateCmds = 0) => elapsed - pausedMs >= dur_wpm]_vars

\* C8: when the starting rate is in range and no event was issued, a token is
\* left exactly when its hold duration has elapsed since its frame was rendered.
C8_AdvanceAtDeadline ==
  [][(AdvanceStep /\ StartInRange /\ ~issued) => elapsed = dur_wpm]_vars

\* the chunks of a text by position: a chunk starts at a character that is not
\* whitespace and that is the first one or follows whitespace
ChunkStarts(text) ==
  {p \in 1..Len(text) : ~IsWhitespace(text[p]) /\ (p = 1 \/ IsWhitespace(text[p - 1]))}
ChunkEnd(text, p) ==
  CHOOSE q \in p..Len(text) :
    /\ \A r \in p..q : ~IsWhitespace(text[r])
    /\ q = Len(text) \/ IsWhitespace(text[q + 1])
NthChunk(text, k) ==
  LET p == CHOOSE s \in ChunkStarts(text) :
             Cardinality({t \in ChunkStarts(text) : t < s}) = k - 1
  IN  SubSeq(text, p, ChunkEnd(text, p))

\* C9: tokenize_text gives one token per whitespace-delimited chunk, in order,
\* each the chunk without its non-alphanumeric characters (possibly empty), and
\* no token for a text without chunks.
C9_Tokens ==
  pc = "tok_out" =>
    /\ Len(words) = Cardinality(ChunkStarts(buf))
    /\ \A k \in 1..Len(words) :
         /\ words[k] = SelectSeq(NthChunk(buf, k), LAMBDA c : c \in Alnum)
         /\ \A n \in 1..Len(words[k]) : words[k][n] \in Alnum
    /\ (\A n \in 1..Len(buf) : buf[n] \in White) => words = <<>>

C9_Witness ==
  /\ pc = "tok_out"
  /\ buf = <<"-", " ", "a", "-">>
  /\ words = << <<>>, <<"a">> >>

\* C10: the countdown renders N, N-1, ..., 0 in that order; while a value is
\* on display the starting label is on the screen exactly when the value is
\* above 0; the tokens begin only after the 0 frame.
C10_Countdown ==
  /\ \A k \in 1..Len(cdFrames) : cdFrames[k] = COUNTDOWN_SECONDS - (k - 1)
  /\ pc = "cdsleep" =>
       /\ screen.center = [kind |-> "count", val |-> cdFrames[Len(cdFrames)]]
       /\ screen.label <=> cdFrames[Len(cdFrames)] > 0
  /\ pc \in {"check", "poll", "ppoll", "done", "panic"} =>
       Len(cdFrames) = COUNTDOWN_SECONDS + 1

InCountdown == pc \in {"countdown", "cdsleep"}
\* the queue after a step that reads nothing from the input source
QueueKept == queue' = queue \/ \E e \in Events : queue' = Append(queue, e)

\* C11: no step taken during the countdown reads an event from the input
\* source, changes the rate or sets the paused flag; while the countdown goes
\* on there is no result; and the countdown is left, otherwise than by an
\* error, only after the frames 3, 2, 1, 0 were rendered and at least
\* COUNTDOWN_SECONDS seconds were measured, whatever keys were issued.
C11_CountdownIgnoresInput ==
  [][InCountdown =>
       /\ QueueKept
       /\ current_wpm' = current_wpm
       /\ ~paused'
       /\ pc' \in {"countdown", "cdsleep"} => result' = <<>>
       /\ pc' \notin {"countdown", "cdsleep", "error"} =>
            /\ cdFrames = <<3, 2, 1, 0>>
            /\ cdElapsed >= 3000]_vars

C11_Witness ==
  /\ pc = "cdsleep"
  /\ cdFrames = <<3, 2, 1, 0>>
  /\ queue = <<"q", " ">>
  /\ current_wpm = config.wpm

\* C12: the step in which event::poll or event::read fails is taken in the
\* Running or the Paused state and ends the session in the error state at
\* once: there is no result, no frame is rendered, no event is read, and the
\* position, the rate and the paused flag stay as they were; after the
\* failure the session takes no further step.
C12_InputFailureEnds ==
  [][/\ ~inputFailed
     /\ inputFailed' =>
          /\ pc \in {"poll", "ppoll"}
          /\ pc' = "error"
          /\ result' = <<>>
          /\ frames' = frames
          /\ screen' = screen
          /\ queue' = queue
          /\ i' = i
          /\ current_wpm' = current_wpm
          /\ paused' = paused]_vars

C12_Witness ==
  /\ pc = "error"
  /\ inputFailed
  /\ paused
  /\ queue # <<>>
  /\ i = 1
  /\ result = <<>>

\* C13: once main has gone past the acquisition of the terminal, whether the
\* acquisition was completed or failed part-way, the terminal is restored
\* (raw mode off, alternate screen left, cursor shown) whenever main matches
\* on the outcome of the session, asks for the summary, has returned, or the
\* process has ended by a panic.
C13_TerminalRestored ==
  pc \in {"m_match", "m_summary", "exit_ok", "exit_err", "panic"} => term = Released

\* C14: main asks for the summary only when the session gave a Completed
\* result, and process_summary is called at most once, after the summary was
\* asked for, with the text of the session and with the rate of the result;
\* after a Cancelled result or a session error no summary is asked for and no
\* call is made.
C14_EvaluationAfterCompleted ==
  /\ summaryAsked =>
       /\ pc \in {"m_summary", "exit_ok", "exit_err"}
       /\ Len(result) = 1
       /\ result[1].success
       /\ result[1].wpm # <<>>
  /\ evalCalls # <<>> =>
       /\ summaryAsked
       /\ Len(evalCalls) = 1
       /\ <<evalCalls[1].wpm>> = result[1].wpm
       /\ evalCalls[1].text = buf
  /\ (result = <<>> \/ result = <<[success |-> FALSE, wpm |-> <<>>]>>) =>
       ~summaryAsked /\ evalCalls = <<>>

C14_Witness ==
  /\ pc = "exit_ok"
  /\ evalCalls # <<>>
  /\ evalCalls[1].wpm = 263
  /\ config.wpm = 258

\* C15: an event that waits at a poll is read by the next step, before any
\* time passes, and a poll never waits longer than its interval (50 ms in the
\* Running state, 100 ms in the Paused state); and a token is left only after
\* time was spent in a poll of its hold, that is, after the input source was
\* polled at least once.
C15_DispatchLatency ==
  [][/\ (pc \in {"poll", "ppoll"} /\ queue # <<>>) =>
          /\ elapsed' = elapsed
          /\ queue' = Tail(queue) \/ pc' = "error" \/ Len(queue') > Len(queue)
     /\ pc = "poll" => waited <= 50
     /\ pc = "ppoll" => waited <= 100
     /\ AdvanceStep => elapsed > 0]_vars

\* C16: the rate changes only in a step of the pause sub-loop that reads the
\* increase or the decrease key while the session is paused; a step of the
\* Running state that reads any event other than the quit key and the pause
\* key leaves the rate, the position, the paused flag and the frames as they
\* were and returns to the while condition.
C16_RateSingleWriter ==
  [][/\ current_wpm' # current_wpm =>
          /\ pc = "ppoll"
          /\ paused
          /\ queue # <<>>
          /\ Head(queue) \in {config.keys.increase_wpm, config.keys.decrease_wpm}
     /\ (/\ pc = "poll"
         /\ queue # <<>>
         /\ queue' = Tail(queue)
         /\ Head(queue) \notin {config.keys.quit, config.keys.pause}) =>
          /\ pc' = "check"
          /\ current_wpm' = current_wpm
          /\ i' = i
          /\ paused' = paused
          /\ frames' = frames]_vars

\* one rate key was issued and was read, on token 0, and the rate is the
\* starting one although the step is 5
C16_Witness ==
  /\ pc = "check"
  /\ i = 0
  /\ rateCmds = 1
  /\ queue = <<>>
  /\ config.wpm_step = 5
  /\ current_wpm = 258
  /\ ~paused

Ended == pc \in {"done", "error", "panic"}

\* C17: when the starting rate is inside [MIN_WPM, MAX_WPM] and the program
\* keeps taking its steps, a session in which time keeps passing in the polls
\* and every pause is eventually left (by a resume, a quit or an error)
\* eventually ends: with a result, with an error, or with the abort of the
\* process.
C17_SessionEnds ==
  ([]<><<Tick>>_vars /\ [](pc = "ppoll" => <>(pc # "ppoll"))) => <>Ended

C17_Witness ==
  /\ pc = "done"
  /\ result = <<[success |-> TRUE, wpm |-> <<263>>]>>
  /\ i = 2
  /\ rateKeys

\* C18: from the first token frame to the end of the session, in the Running
\* and in the Paused state, the top-left indicator shows the digits of the
\* current rate; stated for the sessions whose starting rate is in range and
\* whose step is small enough for no rate command to overflow.
C18_IndicatorShowsRate ==
  (/\ StartInRange
   /\ config.wpm_step <= MIN_WPM
   /\ pc \in {"check", "poll", "ppoll"}) => screen.wpm = Digits(current_wpm)

C20_HoldFixedAtFrame ==
  [][/\ (frames' # frames /\ pc' = "check") =>
          /\ current_wpm' = current_wpm
          /\ dur_wpm' = 60000 \div current_wpm
     /\ (pc \in {"check", "poll", "ppoll"} /\ frames' = frames) =>
          /\ dur_wpm' = dur_wpm
          /\ i' = i \/ (pc = "check" /\ i' = Len(words) /\ pc' = "done")
     /\ i' >= i
     /\ i' # i => i' = i + 1]_vars

\* the session runs on, on token 0, after a pause in which the rate was
\* changed, with the hold of the starting rate
C20_Witness ==
  /\ pc = "check"
  /\ i = 0
  /\ config.wpm = 258
  /\ current_wpm = 263
  /\ dur_wpm = 232
  /\ ~paused

\* C21: the event read at a poll has the effect of exactly one command, or of
\* none. In the Running state the quit key cancels; a pause key that is not
\* the quit key pauses; every other event changes nothing. In the Paused
\* state the increase key raises the rate; a decrease key that is not the
\* increase key lowers it; a quit key that is neither cancels; a pause key
\* that is none of the three resumes; every other event changes nothing.
\* So with pause = quit the Paused state is not entered, and with
\* quit = increase a paused session is not cancelled by that key.
C21_KeyPrecedence ==
  [][LET e == Head(queue)
         k == config.keys
         cancelled == /\ pc' = "done"
                      /\ result' = <<[success |-> FALSE, wpm |-> <<>>]>>
                      /\ current_wpm' = current_wpm
                      /\ paused' = paused
         rateSet(r) == /\ pc' = "ppoll"
                       /\ current_wpm' = r
                       /\ paused'
                       /\ result' = <<>>
         nothing(p) == /\ pc' = p
                       /\ current_wpm' = current_wpm
                       /\ paused' = paused
                       /\ result' = <<>>
     IN  /\ queue # <<>> /\ queue' = Tail(queue)
         /\ pc = "poll" =>
              IF e = k.quit THEN cancelled
              ELSE IF e = k.pause
                     THEN pc' = "ppoll" /\ paused' /\ current_wpm' = current_wpm
                          /\ result' = <<>>
                     ELSE nothing("check")
         /\ pc = "ppoll" =>
              IF e = k.increase_wpm THEN rateSet(263)
              ELSE IF e = k.decrease_wpm THEN rateSet(253)
              ELSE IF e = k.quit THEN cancelled
              ELSE IF e = k.pause
                     THEN pc' = "check" /\ ~paused' /\ current_wpm' = current_wpm
                          /\ result' = <<>>
                     ELSE nothing("ppoll")]_vars

\* the key bound to both quit and increase was read in the Paused state: the
\* rate went up and the session is still paused
C21_Witness ==
  /\ config.keys.quit = config.keys.increase_wpm
  /\ config.keys.pause \notin {config.keys.quit, config.keys.decrease_wpm}
  /\ pc = "ppoll"
  /\ paused
  /\ queue = <<>>
  /\ current_wpm = 263
  /\ result = <<>>

=============================================================================
